---- MODULE Spec2Model ----
(***************************************************************************)
(* Speech-asset pipeline of the communication board (services/gemini):     *)
(* generateAudio (text normalisation, audioCache, 3 attempts with backoff, *)
(* punctuation-stripped fallback), speakText (playback with the browser    *)
(* voice as fallback) and preloadAudioAssets (bulk sweep in batches); and  *)
(* the live session (LiveSession of components/KeyboardView): playback of  *)
(* inbound chunks, interruption, microphone, camera frames and teardown.   *)
(*                                                                         *)
(* Execution model: the code runs on one JavaScript event loop.  A step of *)
(* the model is one task of that loop together with the microtasks it      *)
(* drains: everything a handler does up to the next wait on the network    *)
(* (ai.models.generateContent) or on a timer (delay).  The await on        *)
(* decodeAudioData and the awaits on already settled promises only yield   *)
(* to the microtask queue and are part of the step that settles them.      *)
(* SpecLive follows this for onmessage of the live session; SpecLiveAwait  *)
(* lets the other callbacks of the session and the audio clock run between *)
(* the await of an onmessage call and its resumption, the suspended calls  *)
(* resuming in the order they were suspended.                              *)
(* SpecLiveTasks keeps the two halves of onmessage apart and states the    *)
(* rule of the loop itself: no task starts while a microtask is queued.    *)
(*                                                                         *)
(* A text is a sequence of one-character strings.                          *)
(***************************************************************************)
EXTENDS Integers, Sequences, FiniteSets, TLC

VARIABLES
    audioCache,   \* Map<string, AudioBuffer>: cache key -> asset
    calls,        \* the generateAudio / speakText invocations, by call id
    ops,          \* number of top-level operations started so far
    pl,           \* the preloadAudioAssets sweep
    live          \* the LiveSession component: its refs, its state and its devices

vars == <<audioCache, calls, ops, pl, live>>

----------------------------------------------------------------------------
(* Bounds *)

MaxLen == 3        \* longest input text of the single-call specification
MaxOps == 2        \* top-level operations of one session
MaxTiles == 2      \* tiles of a vocabulary handed to a sweep
MaxClock == 3      \* last tick of the audio clock of the live session
MaxMsgs == 3       \* messages a live session receives
MaxAwaitMsgs == 2  \* messages a live session receives, where onmessage calls are suspended
MaxFrames == 2     \* outbound frames a live session pushes
MaxCams == 2       \* camera streams a live session obtains
MaxCloses == 2     \* runs of the teardown of a live session
MaxSweep == 16     \* texts of the longest vocabulary of the batch specification

----------------------------------------------------------------------------
(* Characters and texts *)

AsciiUpper == {"A"}
SentencePunct == {".", "?", "!"}
StrippedPunct == {".", "?", "!", ","}

\* the characters input texts are made of: an ASCII letter in both cases, an
\* upper-case letter outside A-Z, sentence punctuation and the comma
Chars == {"A", "a", "É", ".", ","}

\* String.prototype.toUpperCase, one character
UpperChar(ch) ==
    CASE ch = "a" -> "A"
      [] ch = "é" -> "É"
      [] OTHER -> ch

\* String.prototype.toLowerCase, one character
LowerChar(ch) ==
    CASE ch = "A" -> "a"
      [] ch = "É" -> "é"
      [] OTHER -> ch

toUpperCase(text) == [i \in 1..Len(text) |-> UpperChar(text[i])]

\* /[A-Z]/.test(text)
HasAsciiUpper(text) == \E i \in 1..Len(text) : text[i] \in AsciiUpper

\* text.charAt(0).toUpperCase() + text.slice(1).toLowerCase()
SentenceCase(text) ==
    [i \in 1..Len(text) |-> IF i = 1 THEN UpperChar(text[i]) ELSE LowerChar(text[i])]

\* a normalisation that does not test for all caps
NormalizeAnyCase(text) ==
    IF Len(text) > 1 /\ HasAsciiUpper(text)
    THEN SentenceCase(text)
    ELSE text

\* the normalisation at the head of generateAudio
Normalize(text) ==
    IF Len(text) > 1 /\ text = toUpperCase(text) /\ HasAsciiUpper(text)
    THEN SentenceCase(text)
    ELSE text

\* `${voiceName}:${textToSpeak}` (voice names hold no colon, so the pair is the key)
CacheKey(voiceName, textToSpeak) == <<voiceName, textToSpeak>>

\* textToSpeak.match(/[.?!]/)
MatchesPunct(text) == \E i \in 1..Len(text) : text[i] \in SentencePunct

\* a replace that strips the commas only
IsKeptButComma(ch) == ch # ","

IsKept(ch) == ch \notin StrippedPunct

\* textToSpeak.replace(/[.?!,]/g, "")
StripPunct(text) == SelectSeq(text, IsKept)

----------------------------------------------------------------------------
(* Program constants *)

MAX_RETRIES == 3
BackoffUnit == 200
BATCH_SIZE == 15

----------------------------------------------------------------------------
(* Input sets *)

Voices == {"V", "W"}

RECURSIVE SeqsUpTo(_, _)
SeqsUpTo(S, n) ==
    IF n = 0 THEN {<<>>}
    ELSE LET shorter == SeqsUpTo(S, n - 1)
         IN shorter \cup {Append(s, ch) : s \in {t \in shorter : Len(t) = n - 1}, ch \in S}

\* every text of at most MaxLen characters
AllTexts == SeqsUpTo(Chars, MaxLen)

\* the utterances of a session: all caps, its sentence case, with a full stop,
\* with a comma
Utterances == { <<"A", "A">>, <<"A", "a">>, <<"A", "a", ".">>, <<"A", "a", ",">> }

----------------------------------------------------------------------------
(* Call and sweep records *)

IdleSweep ==
    [ pc        |-> "idle",   \* "idle" | "running" | "yielding" | "done"
      n         |-> 0,        \* operation number of the sweep
      voice     |-> "",
      texts     |-> <<>>,     \* textsToProcess: the unique texts, in order
      queue     |-> <<>>,     \* the texts that were not cached, in order
      total     |-> 0,
      completed |-> 0,
      i         |-> 0,        \* loop variable of the batch loop
      progress  |-> <<>> ]    \* the onProgress calls, in order

\* an AudioBuffer is identified by the call that decoded it (a call decodes at
\* most one): <<operation number, call id>>
NoAsset == <<>>
NoError == [req |-> 0, kind |-> "none"]

\* what the remote service can answer to one generateContent request
\* "audio": an audio payload that decodes; "noaudio": a response without
\* inlineData (text payload or a finish reason only); "error": generateContent
\* throws, or the payload does not decode
Answers == {"audio", "noaudio", "error"}

\* what a device call (source.start, speechSynthesis.speak) can do
DeviceOutcomes == {"started", "throws"}

IdleCall ==
    [ op      |-> "none",     \* "synthesize" | "speak" | "item"
      id      |-> <<0, 0>>,   \* <<operation number, call id>>
      text    |-> <<>>,       \* the text argument
      voice   |-> "",
      pc      |-> "idle",     \* "idle" | "awaiting" | "delaying" | "done"
      stack   |-> <<>>,       \* frames of generateAudio, innermost last
      trace   |-> <<>>,       \* requests, failures and waits of this call, in order
      gen     |-> "pending",  \* generateAudio: "pending" | "resolved" | "rejected"
      result  |-> NoAsset,    \* the asset generateAudio resolved with
      error   |-> NoError,    \* the error generateAudio rejected with
      outcome |-> "pending",  \* the operation: "pending" | "returned" | "threw"
      output  |-> <<>> ]      \* audible outputs started by speakText

NewCall(op, id, text, voiceName) ==
    [IdleCall EXCEPT !.op = op, !.id = id, !.text = text, !.voice = voiceName]

Ev(e, text, ms) == [e |-> e, text |-> text, ms |-> ms]

Requests(call) == SelectSeq(call.trace, LAMBDA ev : ev.e = "req")

Failures(call) == SelectSeq(call.trace, LAMBDA ev : ev.e = "fail")

Top(call) == call.stack[Len(call.stack)]

\* generateAudio from its entry to its first await: normalise, look the key
\* up, return the cached asset or send the first request
GenEnter(call, text) ==
    LET textToSpeak == Normalize(text)
        cacheKey == CacheKey(call.voice, textToSpeak)
    IN IF cacheKey \in DOMAIN audioCache
       THEN [call EXCEPT !.stack = <<>>, !.pc = "done", !.gen = "resolved",
                         !.result = audioCache[cacheKey]]
       ELSE [call EXCEPT
               !.stack = Append(@, [text |-> textToSpeak, attempt |-> 0,
                                    lastError |-> NoError]),
               !.trace = Append(@, Ev("req", textToSpeak, 0)),
               !.pc = "awaiting"]

\* a throw that passes the error of the innermost frame on
GenThrowInnermost(call) ==
    [call EXCEPT !.stack = <<>>, !.pc = "done", !.gen = "rejected",
                 !.error = Top(call).lastError]

\* a frame whose loop and fallback are exhausted throws its lastError; the
\* caller frame catches it ("Fallback failed") and throws its own lastError
GenThrow(call) ==
    [call EXCEPT !.stack = <<>>, !.pc = "done", !.gen = "rejected",
                 !.error = call.stack[1].lastError]

\* a backoff that does not grow
WaitTimeFlat(attempt) == BackoffUnit

\* const waitTime = 200 * (attempt + 1)
WaitTime(attempt) == BackoffUnit * (attempt + 1)

\* a catch block that goes to the stripped retry as soon as an answer has no
\* audio payload
GenFailStripsAtOnce(call, kind) ==
    LET top == Top(call)
        err == [req |-> Len(Requests(call)), kind |-> kind]
        failed == [call EXCEPT !.stack[Len(call.stack)].lastError = err,
                               !.trace = Append(@, Ev("fail", top.text, 0))]
    IN IF kind = "noaudio" /\ Len(call.stack) = 1
       THEN GenEnter(failed, StripPunct(top.text))
       ELSE IF top.attempt < MAX_RETRIES - 1
       THEN [failed EXCEPT !.pc = "delaying",
               !.trace = Append(@, Ev("wait", top.text, WaitTime(top.attempt)))]
       ELSE IF MatchesPunct(top.text)
            THEN GenEnter(failed, StripPunct(top.text))
            ELSE GenThrow(failed)

\* the catch block of an attempt, and what follows the loop after the last one
GenFail(call, kind) ==
    LET top == Top(call)
        err == [req |-> Len(Requests(call)), kind |-> kind]
        failed == [call EXCEPT !.stack[Len(call.stack)].lastError = err,
                               !.trace = Append(@, Ev("fail", top.text, 0))]
    IN IF top.attempt < MAX_RETRIES - 1
       THEN [failed EXCEPT !.pc = "delaying",
               !.trace = Append(@, Ev("wait", top.text, WaitTime(top.attempt)))]
       ELSE IF MatchesPunct(top.text)
            THEN LET inner == GenEnter(failed, StripPunct(top.text))
                 IN inner
            ELSE GenThrow(failed)

\* the continuation of the caller once generateAudio has settled
Continue(call, play, fallback) ==
    IF call.gen = "pending" THEN call
    ELSE IF call.op = "speak"
    THEN IF call.gen = "resolved" /\ play = "started"
         THEN [call EXCEPT !.outcome = "returned",
                           !.output = Append(@, [kind |-> "asset", asset |-> call.result,
                                                  text |-> <<>>])]
         ELSE IF fallback = "started"
         THEN [call EXCEPT !.outcome = "returned",
                           !.output = Append(@, [kind |-> "local", asset |-> NoAsset,
                                                  text |-> call.text])]
         ELSE [call EXCEPT !.outcome = "threw"]
    ELSE [call EXCEPT !.outcome = IF call.gen = "resolved" THEN "returned" ELSE "threw"]

----------------------------------------------------------------------------
(* The live session record *)

Durations == {1, 2}      \* audioBuffer.duration of an inbound chunk, in clock ticks
NoAudio == 0             \* a message without inlineData

\* LiveSession after its first render and startSession(): both audio contexts
\* created, ai.live.connect called, nothing scheduled, no device open
NewSession ==
    [ unmounts |-> 0,              \* runs of the effect cleanup
      net |-> "connecting",        \* the connection: connecting, open or closed
      promise |-> "pending",       \* sessionPromiseRef.current
      isConnected |-> FALSE,
      inputCtx |-> "running",      \* inputAudioContextRef.current.state
      outputCtx |-> "running",     \* outputAudioContextRef.current.state
      rejections |-> 0,            \* rejected promises that nothing handles
      mic |-> "none",              \* the stream of getUserMedia({audio})
      nodes |-> "none",            \* source and scriptProcessor
      cleanup |-> "noop",          \* cleanupRef.current
      nextStartTime |-> 0,         \* nextStartTimeRef.current
      sources |-> {},              \* sourcesRef.current, as indices of handles
      handles |-> <<>>,            \* every AudioBufferSourceNode started so far
      decoding |-> <<>>,           \* onmessage calls suspended at await decodeAudioData
      clock |-> 0,                 \* outputAudioContextRef.current.currentTime
      msgs |-> 0,                  \* messages received
      interruptions |-> 0,         \* interruptions handled
      camReq |-> 0,                \* getUserMedia({video}) calls not answered yet
      streams |-> 0,               \* camera streams obtained
      cams |-> {},                 \* camera streams whose tracks are live
      srcObject |-> 0,             \* videoRef.current.srcObject (0: null)
      timers |-> {},               \* intervals that are set
      frameInterval |-> 0,         \* frameIntervalRef.current (0: null)
      isVideoEnabled |-> FALSE,
      blobs |-> 0,                 \* canvas.toBlob callbacks to come
      deferred |-> <<>>,           \* frames waiting for sessionPromiseRef to resolve
      out |-> <<>> ]               \* frames handed to session.sendRealtimeInput

\* no LiveSession is mounted
NoSession == [NewSession EXCEPT !.net = "none"]

----------------------------------------------------------------------------
(* State *)

CallIds == 0..MaxTiles      \* 0: the caller of the user interface; 1..: items of a sweep
Ui == 0

Init ==
    /\ audioCache = <<>>
    /\ calls = [c \in CallIds |-> IdleCall]
    /\ ops = 0
    /\ pl = IdleSweep
    /\ live = NoSession

\* a cache left by earlier operations of the session: normalised texts of the
\* vocabulary under either voice, each with an asset of its own
EarlierKeys ==
    << CacheKey("V", <<"A", "a">>), CacheKey("V", <<"A", "a", ".">>),
       CacheKey("W", <<"A", "a">>) >>

EarlierCaches ==
    { [key \in {EarlierKeys[j] : j \in held} |->
          <<0, CHOOSE j \in held : EarlierKeys[j] = key>>] :
      held \in SUBSET (1..Len(EarlierKeys)) }

InitPreload ==
    /\ audioCache \in EarlierCaches
    /\ calls = [c \in CallIds |-> IdleCall]
    /\ ops = 0
    /\ pl = IdleSweep
    /\ live = NoSession

----------------------------------------------------------------------------
(* The bulk sweep: preloadAudioAssets *)

FolderIds == {"folder_needs"}        \* ids for which id.startsWith('folder_') holds
NoText == <<>>                       \* a textToSpeak that is absent (or empty)

\* the tiles a vocabulary is made of
Tiles ==
    { [id |-> "folder_needs", label |-> <<"A", "a">>, textToSpeak |-> NoText],
      [id |-> "hi",    label |-> <<"A", "A">>, textToSpeak |-> NoText],
      [id |-> "hello", label |-> <<"A">>, textToSpeak |-> <<"A", "a">>],
      [id |-> "yes",   label |-> <<"A", "a", ".">>, textToSpeak |-> NoText] }

Vocabularies == SeqsUpTo(Tiles, MaxTiles)

\* tile.textToSpeak || tile.label
TileText(tile) == IF tile.textToSpeak # NoText THEN tile.textToSpeak ELSE tile.label

\* the forEach over the tiles: a Set keeps the first occurrence of a text, in
\* insertion order, and folder tiles are skipped
RECURSIVE UniqueTexts(_)
UniqueTexts(tiles) ==
    IF tiles = <<>> THEN <<>>
    ELSE LET n == Len(tiles)
             before == UniqueTexts(SubSeq(tiles, 1, n - 1))
             tile == tiles[n]
         IN IF tile.id \in FolderIds \/ (\E j \in 1..Len(before) : before[j] = TileText(tile))
            THEN before
            ELSE Append(before, TileText(tile))

\* a filter that looks the text up as it is written on the tile
PreloadNormalizeNone(text) == text

\* the normalisation inside the filter of preloadAudioAssets
PreloadNormalize(text) ==
    IF Len(text) > 1 /\ text = toUpperCase(text) /\ HasAsciiUpper(text)
    THEN SentenceCase(text)
    ELSE text

\* a filter that keeps every text
IsPendingAlways(text, voiceName) == TRUE

\* the filter callback: TRUE for a text that stays in the queue
IsPending(text, voiceName) ==
    CacheKey(voiceName, PreloadNormalize(text)) \notin DOMAIN audioCache

\* requests sent so far by the item calls of the sweep
RECURSIVE SentBy(_, _)
SentBy(cs, ids) ==
    IF ids = {} THEN 0
    ELSE LET c == CHOOSE x \in ids : TRUE
         IN Len(Requests(cs[c])) + SentBy(cs, ids \ {c})

ItemIds(p) == 1..Len(p.queue)

\* a sweep that sends the whole queue at once
BatchIdsWholeQueue(p) == ItemIds(p)

\* queue.slice(i, i + BATCH_SIZE), as call ids
BatchIds(p) == {k \in ItemIds(p) : p.i < k /\ k <= p.i + BATCH_SIZE}

\* a report that counts the settled items only
ReportSettledOnly(p, cs) ==
    [completed |-> Cardinality({k \in ItemIds(p) : cs[k].op = "item" /\ cs[k].pc = "done"}),
     total |-> p.total, network |-> SentBy(cs, ItemIds(p)) > 0]

\* onProgress(completed, total); network: whether a request of the sweep has
\* been sent when the call is made
Report(p, cs) ==
    [completed |-> p.completed, total |-> p.total, network |-> SentBy(cs, ItemIds(p)) > 0]

\* an item that counts and reports only when its generateAudio resolved
ItemCountedInTry(p, cs, k) ==
    IF cs[k].gen = "resolved"
    THEN LET counted == [p EXCEPT !.completed = @ + 1]
         IN [counted EXCEPT !.progress = Append(@, Report(counted, cs))]
    ELSE p

\* try { await generateAudio(text, voiceName) } catch { warn } finally
\* { completed++; onProgress(completed, total) } of item k, once it has settled
ItemFinally(p, cs, k) ==
    LET counted == [p EXCEPT !.completed = @ + 1]
    IN [counted EXCEPT !.progress = Append(@, Report(counted, cs))]

\* the finally block of the items in ids that have settled, lowest id first,
\* then Promise.all once the whole batch has settled
RECURSIVE ItemsSettled(_, _, _)
ItemsSettled(p, cs, ids) ==
    LET settled == {k \in ids : cs[k].op = "item" /\ cs[k].pc = "done"}
    IN IF settled = {}
       THEN IF p.pc = "running" /\ \A k \in BatchIds(p) : cs[k].pc = "done"
            THEN [p EXCEPT !.pc = "yielding"]
            ELSE p
       ELSE LET k == CHOOSE x \in settled : \A y \in settled : x <= y
            IN ItemsSettled(ItemFinally(p, cs, k), cs, ids \ {k})

\* batch.map(async text => ...): every item of the batch runs generateAudio up
\* to its first await
Launch(p, cs) ==
    [c \in DOMAIN cs |->
        IF c \in BatchIds(p)
        THEN GenEnter(NewCall("item", <<p.n, c>>, p.queue[c], p.voice), p.queue[c])
        ELSE cs[c]]

\* preloadAudioAssets from its entry to the first await of the first batch
PreloadStart(tiles, voiceName) ==
    /\ ops' = ops + 1
    /\ LET textsToProcess == UniqueTexts(tiles)
           queue == SelectSeq(textsToProcess, LAMBDA text : IsPending(text, voiceName))
           filtered == [IdleSweep EXCEPT !.n = ops + 1,
                                        !.voice = voiceName, !.queue = queue,
                                        !.texts = textsToProcess,
                                        !.total = Len(textsToProcess),
                                        !.completed = Len(textsToProcess) - Len(queue)]
           cleared == [c \in DOMAIN calls |-> IF c = Ui THEN calls[c] ELSE IdleCall]
           reported == [filtered EXCEPT !.progress = <<Report(filtered, cleared)>>]
       IN IF queue = <<>>
          THEN /\ pl' = [reported EXCEPT !.pc = "done"]
               /\ calls' = cleared
          ELSE LET running == [reported EXCEPT !.pc = "running"]
                   launched == Launch(running, cleared)
               IN /\ calls' = launched
                  /\ pl' = ItemsSettled(running, launched, BatchIds(running))
    /\ UNCHANGED <<audioCache, live>>

\* delay(20) is over: next batch, or the end of the sweep
YieldDone ==
    /\ pl.pc = "yielding"
    /\ LET next == [pl EXCEPT !.i = @ + BATCH_SIZE]
       IN IF next.i < Len(next.queue)
          THEN LET running == [next EXCEPT !.pc = "running"]
                   launched == Launch(running, calls)
               IN /\ calls' = launched
                  /\ pl' = ItemsSettled(running, launched, BatchIds(running))
          ELSE /\ pl' = [next EXCEPT !.pc = "done"]
               /\ UNCHANGED calls
    /\ UNCHANGED <<audioCache, ops, live>>

----------------------------------------------------------------------------
(* Operations of the user interface *)

\* the user interface starts an operation only while none is running
CanBegin(budget) ==
    /\ ops < budget
    /\ pl.pc \in {"idle", "done"}
    /\ \A c \in DOMAIN calls : calls[c].pc \in {"idle", "done"}

\* generateAudio(text, voiceName) called directly
Synthesize(c, text, voiceName) ==
    /\ ops' = ops + 1
    /\ calls' = [calls EXCEPT
          ![c] = Continue(GenEnter(NewCall("synthesize", <<ops + 1, c>>, text, voiceName), text),
                          "started", "started")]
    /\ UNCHANGED <<audioCache, pl, live>>

\* speakText(text, voiceName)
Speak(c, text, voiceName, play, fallback) ==
    /\ ops' = ops + 1
    /\ calls' = [calls EXCEPT
          ![c] = Continue(GenEnter(NewCall("speak", <<ops + 1, c>>, text, voiceName), text),
                          play, fallback)]
    /\ UNCHANGED <<audioCache, pl, live>>

\* isSpeaking of App as handleSpeak of the sentence strip sets it: true from
\* an accepted press until the await on speakText has returned
isSpeaking == calls[Ui].op = "speak" /\ calls[Ui].outcome # "returned"

\* handleSpeak: a press on an empty strip, or while isSpeaking, is ignored
HandleSpeak(text, voiceName, play, fallback) ==
    /\ ~(text = NoText \/ isSpeaking)
    /\ ops < MaxOps
    /\ Speak(Ui, text, voiceName, play, fallback)

----------------------------------------------------------------------------
(* Steps of a running call *)

\* a cache that keeps the asset it already holds for a key
CacheSetIfAbsent(cache, cacheKey, asset) == cache @@ (cacheKey :> asset)

\* audioCache.set(cacheKey, audioBuffer)
CacheSet(cache, cacheKey, asset) == (cacheKey :> asset) @@ cache

\* the frame of call c that awaits the network gets an audio payload, decodes
\* it, caches it under its own key and returns it
RespondAudio(c, play, fallback) ==
    /\ calls[c].pc = "awaiting"
    /\ LET call == calls[c]
           asset == call.id
           settled == [call EXCEPT !.stack = <<>>, !.pc = "done",
                                   !.gen = "resolved", !.result = asset]
           after == [calls EXCEPT ![c] = Continue(settled, play, fallback)]
       IN /\ audioCache' = CacheSet(audioCache, CacheKey(call.voice, Top(call).text), asset)
          /\ calls' = after
          /\ pl' = ItemsSettled(pl, after, {c})
    /\ UNCHANGED <<ops, live>>

\* a failed request that leaves an entry under the key it was sent for
RespondFailureCached(c, kind, fallback) ==
    /\ calls[c].pc = "awaiting"
    /\ kind \in Answers \ {"audio"}
    /\ LET after == [calls EXCEPT
                       ![c] = Continue(GenFail(calls[c], kind), "started", fallback)]
       IN /\ calls' = after
          /\ pl' = ItemsSettled(pl, after, {c})
    /\ audioCache' = CacheSet(audioCache, CacheKey(calls[c].voice, Top(calls[c]).text),
                              calls[c].id)
    /\ UNCHANGED <<ops, live>>

\* the request fails: the service throws, answers without audio, or the
\* payload does not decode
RespondFailure(c, kind, fallback) ==
    /\ calls[c].pc = "awaiting"
    /\ kind \in Answers \ {"audio"}
    /\ LET after == [calls EXCEPT
                       ![c] = Continue(GenFail(calls[c], kind), "started", fallback)]
       IN /\ calls' = after
          /\ pl' = ItemsSettled(pl, after, {c})
    /\ UNCHANGED <<audioCache, ops, live>>

\* the backoff timer fires: next attempt
DelayDone(c) ==
    /\ calls[c].pc = "delaying"
    /\ LET call == calls[c]
           n == Len(call.stack)
       IN calls' = [calls EXCEPT
              ![c] = [call EXCEPT !.stack[n].attempt = @ + 1,
                                  !.trace = Append(@, Ev("req", Top(call).text, 0)),
                                  !.pc = "awaiting"]]
    /\ UNCHANGED <<audioCache, ops, pl, live>>

\* only speakText touches the devices
DeviceChoices(c) == IF calls[c].op = "speak" THEN DeviceOutcomes ELSE {"started"}

Steps ==
    \/ \E c \in CallIds : \E play \in DeviceChoices(c), fallback \in DeviceChoices(c) :
          RespondAudio(c, play, fallback)
    \/ \E c \in CallIds, kind \in Answers : \E fallback \in DeviceChoices(c) :
          RespondFailure(c, kind, fallback)
    \/ \E c \in CallIds : DelayDone(c)

----------------------------------------------------------------------------
(* Specifications *)

\* a session of the user interface: one operation at a time, on the utterances
Next ==
    \/ /\ CanBegin(MaxOps)
       /\ \E text \in Utterances, voiceName \in Voices : Synthesize(Ui, text, voiceName)
    \/ /\ CanBegin(MaxOps)
       /\ \E text \in Utterances, voiceName \in Voices, play \in DeviceOutcomes,
             fallback \in DeviceOutcomes : Speak(Ui, text, voiceName, play, fallback)
    \/ Steps

Spec == Init /\ [][Next]_vars

\* one operation on any text of at most MaxLen characters
NextOne ==
    \/ /\ CanBegin(1)
       /\ \E text \in AllTexts, voiceName \in Voices : Synthesize(Ui, text, voiceName)
    \/ /\ CanBegin(1)
       /\ \E text \in AllTexts, voiceName \in Voices, play \in DeviceOutcomes,
             fallback \in DeviceOutcomes : Speak(Ui, text, voiceName, play, fallback)
    \/ Steps

SpecOne == Init /\ [][NextOne]_vars

\* the service answers every request and every timer fires
SpecOneFair == SpecOne /\ WF_vars(Steps)

\* one sweep over a vocabulary, on a cache that earlier operations have filled
NextPreload ==
    \/ /\ CanBegin(1)
       /\ \E tiles \in Vocabularies, voiceName \in Voices : PreloadStart(tiles, voiceName)
    \/ YieldDone
    \/ Steps

SpecPreload == InitPreload /\ [][NextPreload]_vars

\* one sweep on an empty cache, where the service answers every request and
\* every timer fires
NextSweep ==
    \/ /\ CanBegin(1)
       /\ \E tiles \in Vocabularies : PreloadStart(tiles, "V")
    \/ YieldDone
    \/ Steps

SpecPreloadFair == Init /\ [][NextSweep]_vars /\ WF_vars(Steps) /\ WF_vars(YieldDone)

\* a vocabulary of n tiles with n texts: "a", "aa", "aaa", ...
LongVocabulary(n) ==
    [k \in 1..n |-> [id |-> "hi", label |-> [j \in 1..k |-> "a"], textToSpeak |-> NoText]]

InitBatches ==
    /\ audioCache = <<>>
    /\ calls = [c \in 0..MaxSweep |-> IdleCall]
    /\ ops = 0
    /\ pl = IdleSweep
    /\ live = NoSession

\* one sweep over a vocabulary that fills more than one batch, every request
\* answered with audio, in any order
NextBatches ==
    \/ /\ CanBegin(1)
       /\ PreloadStart(LongVocabulary(MaxSweep), "V")
    \/ YieldDone
    \/ \E c \in 1..MaxSweep : RespondAudio(c, "started", "started")

SpecBatches == InitBatches /\ [][NextBatches]_vars

\* presses on the Speak button of the sentence strip; the service answers
\* every request and every timer fires
NextStrip ==
    \/ \E text \in Utterances \cup {NoText}, voiceName \in Voices,
          play \in DeviceOutcomes, fallback \in DeviceOutcomes :
          HandleSpeak(text, voiceName, play, fallback)
    \/ Steps

SpecStrip == Init /\ [][NextStrip]_vars /\ WF_vars(Steps)

\* two callers of generateAudio, each calling once, whatever the other is doing
Callers == {0, 1}

NextTwo ==
    \/ \E c \in Callers, text \in Utterances, voiceName \in Voices :
          /\ calls[c].pc = "idle"
          /\ Synthesize(c, text, voiceName)
    \/ Steps

SpecTwo == Init /\ [][NextTwo]_vars

----------------------------------------------------------------------------
(* The live session: LiveSession of components/KeyboardView                *)
(*                                                                         *)
(* The session never calls close() on the connection: after the component  *)
(* is unmounted the callbacks of ai.live.connect keep arriving for as long *)
(* as the connection is open.                                              *)

\* the component is mounted: videoRef.current and canvasRef.current are set and
\* a state setter has an effect
Mounted(l) == l.unmounts = 0

MathMax(a, b) == IF a > b THEN a ELSE b

\* a frame handed to session.sendRealtimeInput
Frame(l, kind, net) == [kind |-> kind, net |-> net, unmounted |-> ~Mounted(l)]

\* sessionPromiseRef.current.then(session => session.sendRealtimeInput(...)):
\* the frame goes out at once when the promise is resolved, waits while it is
\* pending and is dropped when it is rejected
Push(l, kind) ==
    IF l.promise = "resolved" THEN [l EXCEPT !.out = Append(@, Frame(l, kind, l.net))]
    ELSE IF l.promise = "pending" THEN [l EXCEPT !.deferred = Append(@, kind)]
    ELSE l

CanPush(l) == Len(l.out) + Len(l.deferred) + l.blobs < MaxFrames

\* onopen up to its await on getUserMedia({audio: true}); the promise of
\* ai.live.connect resolves and the frames that waited for it go out
OnOpen ==
    /\ live.net = "connecting"
    /\ live' = [live EXCEPT
          !.net = "open",
          !.promise = "resolved",
          !.isConnected = IF Mounted(live) THEN TRUE ELSE @,
          !.mic = "requested",
          !.out = @ \o [k \in 1..Len(live.deferred) |-> Frame(live, live.deferred[k], "open")],
          !.deferred = <<>>]
    /\ UNCHANGED <<audioCache, calls, ops, pl>>

\* getUserMedia resolves: onopen creates and connects the nodes and chains the
\* microphone cleanup; inputAudioContextRef.current is set since startSession
MicGranted ==
    /\ live.mic = "requested"
    /\ live' = [live EXCEPT !.mic = "live", !.nodes = "connected", !.cleanup = "mic"]
    /\ UNCHANGED <<audioCache, calls, ops, pl>>

\* getUserMedia rejects: catch (err)
MicDenied ==
    /\ live.mic = "requested"
    /\ live' = [live EXCEPT !.mic = "denied"]
    /\ UNCHANGED <<audioCache, calls, ops, pl>>

\* scriptProcessor.onaudioprocess: one buffer of microphone samples
AudioProcess ==
    /\ live.mic = "live" /\ live.nodes = "connected" /\ live.inputCtx = "running"
    /\ CanPush(live)
    /\ live' = Push(live, "audio")
    /\ UNCHANGED <<audioCache, calls, ops, pl>>

\* onclose: the remote end closed the connection
OnClose ==
    /\ live.net = "open"
    /\ live' = [live EXCEPT !.net = "closed",
                            !.isConnected = IF Mounted(live) THEN FALSE ELSE @]
    /\ UNCHANGED <<audioCache, calls, ops, pl>>

\* onerror: the connection failed, before or after it opened
OnError ==
    /\ live.net \in {"connecting", "open"}
    /\ live' = [live EXCEPT !.net = "closed",
                            !.promise = IF @ = "pending" THEN "rejected" ELSE @,
                            !.deferred = <<>>,
                            !.isConnected = IF Mounted(live) THEN FALSE ELSE @]
    /\ UNCHANGED <<audioCache, calls, ops, pl>>

\* a chunk of the message numbered recv is being decoded: its duration, the
\* interrupted flag of its message, the clock and the number of interruptions
\* handled when it came
Chunk(l, d, interrupted) ==
    [dur |-> d, interrupted |-> interrupted, recv |-> l.msgs + 1,
     heard |-> l.clock, epoch |-> l.interruptions]

\* an onmessage that moves the cursor to the clock, whatever the cursor was
ReceiveAtClock(l, d, interrupted) ==
    [l EXCEPT !.nextStartTime = l.clock,
              !.decoding = Append(@, Chunk(l, d, interrupted))]

\* onmessage from its entry to await decodeAudioData, for a message with audio
ReceiveAudio(l, d, interrupted) ==
    [l EXCEPT !.nextStartTime = MathMax(@, l.clock),
              !.decoding = Append(@, Chunk(l, d, interrupted))]

\* an interruption block that stops the sources and keeps the cursor
InterruptKeepsCursor(l) ==
    [l EXCEPT !.handles = [h \in DOMAIN @ |->
                              IF h \in l.sources THEN [@[h] EXCEPT !.state = "stopped"]
                              ELSE @[h]],
              !.sources = {},
              !.interruptions = @ + 1]

\* the interruption block of onmessage
Interrupt(l) ==
    [l EXCEPT !.handles = [h \in DOMAIN @ |->
                              IF h \in l.sources THEN [@[h] EXCEPT !.state = "stopped"]
                              ELSE @[h]],
              !.sources = {},
              !.nextStartTime = 0,
              !.interruptions = @ + 1]

\* a resumed onmessage that starts the source and leaves the cursor where it is
ScheduleKeepsCursor(l) ==
    LET chunk == Head(l.decoding)
        handle == [when |-> l.nextStartTime, dur |-> chunk.dur, at |-> l.clock,
                   state |-> "scheduled", recv |-> chunk.recv, heard |-> chunk.heard,
                   epoch |-> chunk.epoch, sepoch |-> l.interruptions]
        started == [l EXCEPT !.decoding = Tail(@),
                             !.handles = Append(@, handle),
                             !.sources = @ \cup {Len(l.handles) + 1}]
    IN IF chunk.interrupted THEN Interrupt(started) ELSE started

\* onmessage after await decodeAudioData, for the call that was suspended
\* first: start the source at the cursor, advance the cursor, add the source to
\* sourcesRef; then the interruption block when the message carries both
ScheduleDecoded(l) ==
    LET chunk == Head(l.decoding)
        handle == [when |-> l.nextStartTime, dur |-> chunk.dur, at |-> l.clock,
                   state |-> "scheduled", recv |-> chunk.recv, heard |-> chunk.heard,
                   epoch |-> chunk.epoch, sepoch |-> l.interruptions]
        started == [l EXCEPT !.decoding = Tail(@),
                             !.handles = Append(@, handle),
                             !.nextStartTime = @ + chunk.dur,
                             !.sources = @ \cup {Len(l.handles) + 1}]
    IN IF chunk.interrupted THEN Interrupt(started) ELSE started

\* the handler of a message of the session, from its entry to its end
Handled(l, d, interrupted) ==
    IF d # NoAudio
    THEN ScheduleDecoded(ReceiveAudio(l, d, interrupted))
    ELSE Interrupt(l)

\* onmessage when nothing else runs before it returns: a chunk of duration d,
\* an interruption, or both
OnMessage(d, interrupted) ==
    /\ live.net = "open" /\ live.msgs < MaxMsgs
    /\ d # NoAudio \/ interrupted
    /\ live' = [Handled(live, d, interrupted) EXCEPT !.msgs = @ + 1]
    /\ UNCHANGED <<audioCache, calls, ops, pl>>

\* onmessage up to its first await: other callbacks may run before it resumes
OnMessageReceived(d, interrupted) ==
    /\ live.net = "open" /\ live.msgs < MaxAwaitMsgs
    /\ d # NoAudio \/ interrupted
    /\ live' = [(IF d # NoAudio THEN ReceiveAudio(live, d, interrupted) ELSE Interrupt(live))
                  EXCEPT !.msgs = @ + 1]
    /\ UNCHANGED <<audioCache, calls, ops, pl>>

\* the suspended onmessage calls resume in the order they were suspended
Decoded ==
    /\ live.decoding # <<>>
    /\ live' = ScheduleDecoded(live)
    /\ UNCHANGED <<audioCache, calls, ops, pl>>

\* a source starts at the time it was given, or at once when that time is past
PlaysFrom(handle) == MathMax(handle.when, handle.at)

\* an 'ended' listener that leaves the source in sourcesRef
EndedKeepsSource(h) ==
    /\ h \in DOMAIN live.handles
    /\ live.handles[h].state = "scheduled"
    /\ live.outputCtx = "running"
    /\ live.clock >= PlaysFrom(live.handles[h]) + live.handles[h].dur
    /\ live' = [live EXCEPT !.handles[h].state = "ended"]
    /\ UNCHANGED <<audioCache, calls, ops, pl>>

\* the 'ended' listener of a source that has played to its end
Ended(h) ==
    /\ h \in DOMAIN live.handles
    /\ live.handles[h].state = "scheduled"
    /\ live.outputCtx = "running"
    /\ live.clock >= PlaysFrom(live.handles[h]) + live.handles[h].dur
    /\ live' = [live EXCEPT !.handles[h].state = "ended", !.sources = @ \ {h}]
    /\ UNCHANGED <<audioCache, calls, ops, pl>>

\* the clock of a running output context advances
Tick ==
    /\ live.outputCtx = "running" /\ live.clock < MaxClock
    /\ live' = [live EXCEPT !.clock = @ + 1]
    /\ UNCHANGED <<audioCache, calls, ops, pl>>

\* the cleanup of the effect: cleanupRef.current(), then close() on both
\* contexts; close() on a context that is closed returns a rejected promise
Teardown(l) ==
    LET cleaned == IF l.cleanup = "mic"
                   THEN [l EXCEPT !.mic = "stopped", !.nodes = "disconnected"]
                   ELSE l
        rejected == (IF l.inputCtx = "closed" THEN 1 ELSE 0)
                    + (IF l.outputCtx = "closed" THEN 1 ELSE 0)
    IN [cleaned EXCEPT !.unmounts = @ + 1,
                       !.inputCtx = "closed",
                       !.outputCtx = "closed",
                       !.rejections = @ + rejected]

\* the component is unmounted: React runs the cleanup of the effect
Unmount ==
    /\ live.net # "none" /\ Mounted(live)
    /\ live' = Teardown(live)
    /\ UNCHANGED <<audioCache, calls, ops, pl>>

\* the cleanup runs once more on the session it has torn down
TeardownAgain ==
    /\ 0 < live.unmounts /\ live.unmounts < MaxCloses
    /\ live' = Teardown(live)
    /\ UNCHANGED <<audioCache, calls, ops, pl>>

\* startVideo up to its await on getUserMedia({video}); the button shows it
\* while isVideoEnabled is false
StartVideo ==
    /\ Mounted(live) /\ ~live.isVideoEnabled
    /\ live.streams + live.camReq < MaxCams
    /\ live' = [live EXCEPT !.camReq = @ + 1]
    /\ UNCHANGED <<audioCache, calls, ops, pl>>

\* getUserMedia resolves with a stream: with videoRef.current set it becomes
\* the srcObject and a new interval is stored in frameIntervalRef
CameraGranted ==
    /\ live.camReq > 0
    /\ LET s == live.streams + 1
           got == [live EXCEPT !.camReq = @ - 1, !.streams = s, !.cams = @ \cup {s}]
       IN live' = IF Mounted(live)
                  THEN [got EXCEPT !.srcObject = s, !.isVideoEnabled = TRUE,
                                   !.timers = @ \cup {s}, !.frameInterval = s]
                  ELSE got
    /\ UNCHANGED <<audioCache, calls, ops, pl>>

\* getUserMedia rejects: catch (e)
CameraDenied ==
    /\ live.camReq > 0
    /\ live' = [live EXCEPT !.camReq = @ - 1]
    /\ UNCHANGED <<audioCache, calls, ops, pl>>

\* stopVideo; the button shows it while isVideoEnabled is true
StopVideo ==
    /\ Mounted(live) /\ live.isVideoEnabled
    /\ live' = [live EXCEPT !.timers = @ \ {live.frameInterval},
                            !.cams = @ \ {live.srcObject},
                            !.srcObject = 0,
                            !.isVideoEnabled = FALSE]
    /\ UNCHANGED <<audioCache, calls, ops, pl>>

\* the callback of interval t: it captures a frame while the element refs are
\* set and does nothing once they are null
FrameTimer(t) ==
    /\ t \in live.timers
    /\ CanPush(live)
    /\ live' = IF Mounted(live) THEN [live EXCEPT !.blobs = @ + 1] ELSE live
    /\ UNCHANGED <<audioCache, calls, ops, pl>>

\* the callback of canvas.toBlob, through blobToBase64
BlobReady ==
    /\ live.blobs > 0
    /\ live' = Push([live EXCEPT !.blobs = @ - 1], "video")
    /\ UNCHANGED <<audioCache, calls, ops, pl>>

InitLive ==
    /\ audioCache = <<>>
    /\ calls = [c \in CallIds |-> IdleCall]
    /\ ops = 0
    /\ pl = IdleSweep
    /\ live = NewSession

Connection ==
    \/ OnOpen
    \/ OnClose
    \/ OnError

Microphone ==
    \/ MicGranted
    \/ MicDenied

\* playback, each onmessage call running to its end before the next callback
NextLive ==
    \/ Connection
    \/ Unmount
    \/ \E d \in Durations \cup {NoAudio}, interrupted \in BOOLEAN :
          OnMessage(d, interrupted)
    \/ \E h \in 1..MaxMsgs : Ended(h)
    \/ Tick

SpecLive == InitLive /\ [][NextLive]_vars

\* playback of a mounted session, other callbacks running while an onmessage
\* call is suspended
NextLiveAwait ==
    \/ OnOpen
    \/ OnClose
    \/ \E d \in Durations \cup {NoAudio}, interrupted \in BOOLEAN :
          OnMessageReceived(d, interrupted)
    \/ Decoded
    \/ \E h \in 1..MaxAwaitMsgs : Ended(h)
    \/ Tick

SpecLiveAwait == InitLive /\ [][NextLiveAwait]_vars

\* a loop that starts a task while an onmessage call is still suspended
LoopIdleAlways(l) == TRUE

\* the event loop starts a task only when no microtask is queued; the
\* resumption after await decodeAudioData, a promise that is settled when it is
\* awaited, is a microtask
LoopIdle(l) == l.decoding = <<>>

\* a message delivered in a task of its own
OnMessageTask(d, interrupted) ==
    /\ LoopIdle(live)
    /\ OnMessageReceived(d, interrupted)

\* an ended event, dispatched in a task
EndedTask(h) ==
    /\ LoopIdle(live)
    /\ Ended(h)

\* playback of a mounted session: onmessage in two steps, the second a
\* microtask of the task that ran the first; the audio clock runs freely
NextLiveTasks ==
    \/ OnOpen
    \/ OnClose
    \/ \E d \in Durations \cup {NoAudio}, interrupted \in BOOLEAN :
          OnMessageTask(d, interrupted)
    \/ Decoded
    \/ \E h \in 1..MaxAwaitMsgs : EndedTask(h)
    \/ Tick

SpecLiveTasks == InitLive /\ [][NextLiveTasks]_vars

\* the devices and the outbound frames
NextVideo ==
    \/ Connection
    \/ Microphone
    \/ AudioProcess
    \/ Unmount
    \/ TeardownAgain
    \/ StartVideo
    \/ CameraGranted
    \/ CameraDenied
    \/ StopVideo
    \/ \E t \in 1..MaxCams : FrameTimer(t)
    \/ BlobReady

SpecVideo == InitLive /\ [][NextVideo]_vars

----------------------------------------------------------------------------
(* Properties *)

ItemCalls == {c \in CallIds : calls[c].op = "item"}

\* the call fell through to the punctuation-stripped retry and that retry
\* produced the asset
FellBackAndResolved(call) ==
    /\ call.pc = "done" /\ call.gen = "resolved"
    /\ Len(Failures(call)) >= 3

\* C1: after a synthesis that succeeded through the punctuation-stripped retry,
\* the cache holds the returned asset under the key of the original normalised
\* text.
C1_FallbackCachedUnderOriginalKey ==
    \A c \in CallIds :
        FellBackAndResolved(calls[c]) =>
            LET key == CacheKey(calls[c].voice, Normalize(calls[c].text))
            IN key \in DOMAIN audioCache /\ audioCache[key] = calls[c].result

\* C2: when a synthesize has resolved and nothing else is in flight, a second
\* synthesize of the same text and voice sends no request and resolves with
\* the asset the first one resolved with.
C2_SecondCallIsCacheHit ==
    [][ \A c \in CallIds :
          ( /\ calls[c].op = "synthesize" /\ calls[c].pc = "done"
            /\ calls[c].gen = "resolved"
            /\ calls'[c].id # calls[c].id
            /\ calls'[c].op = "synthesize"
            /\ calls'[c].text = calls[c].text /\ calls'[c].voice = calls[c].voice )
          => ( /\ calls'[c].pc = "done" /\ calls'[c].gen = "resolved"
               /\ Requests(calls'[c]) = <<>>
               /\ calls'[c].result = calls[c].result ) ]_vars

\* the recursive generateAudio call on the stripped text has been made
RetryMade(call) ==
    \/ Len(Requests(call)) > 3
    \/ Len(Failures(call)) = 3 /\ call.gen = "resolved"

HasAnyOf(text, chars) == \E i \in 1..Len(text) : text[i] \in chars

\* C3: once the 3 attempts on the normalised text have failed, the stripped
\* retry is made exactly when that text holds one of . ? ! ,
C3_RetryIffPunctuationOrComma ==
    \A c \in CallIds :
        Len(Failures(calls[c])) >= 3 =>
            (RetryMade(calls[c]) <=>
                HasAnyOf(Normalize(calls[c].text), {".", "?", "!", ","}))

\* what a call does on its normalised text when every request fails
FailingAttempts(text) ==
    << Ev("req", text, 0), Ev("fail", text, 0), Ev("wait", text, 200),
       Ev("req", text, 0), Ev("fail", text, 0), Ev("wait", text, 400),
       Ev("req", text, 0), Ev("fail", text, 0) >>

Min(a, b) == IF a < b THEN a ELSE b

\* C4: a call makes its attempts on the normalised text in this order:
\* request, failure, wait 200, request, failure, wait 400, request, failure;
\* it raises or falls through to the stripped retry only after the 3rd
\* failure, and no wait follows the 3rd failure.
C4_ThreeAttemptsWithBackoff ==
    \A c \in CallIds :
        LET call == calls[c]
            expected == FailingAttempts(call.trace[1].text)
            k == Min(Len(call.trace), Len(expected))
        IN call.trace # <<>> =>
            /\ SubSeq(call.trace, 1, k) = SubSeq(expected, 1, k)
            /\ (call.gen = "rejected" \/ Len(call.stack) > 1) => Len(call.trace) >= 8
            /\ Len(call.trace) > 8 => call.trace[9].e = "req"

C4_Witness ==
    \E c \in CallIds :
        /\ calls[c].gen = "rejected"
        /\ calls[c].trace = FailingAttempts(Normalize(calls[c].text))

\* C5: the stripped retry never triggers another one (at most 2 frames of
\* generateAudio), a call sends at most 6 requests, and every call that was
\* started settles.
C5_BoundedRecursionAndTermination ==
    /\ [](\A c \in CallIds : Len(calls[c].stack) <= 2 /\ Len(Requests(calls[c])) <= 6)
    /\ \A c \in CallIds : (calls[c].pc \in {"awaiting", "delaying"}) ~> (calls[c].pc = "done")

C5_Witness ==
    \E c \in CallIds :
        /\ calls[c].pc = "done" /\ calls[c].gen = "rejected"
        /\ Len(Requests(calls[c])) = 6

\* C6 as stated: the error a failed synthesize raises is the error of the last
\* failed request of the call.
C6_RaisesLastAttemptError ==
    \A c \in CallIds :
        calls[c].gen = "rejected" => calls[c].error.req = Len(Requests(calls[c]))

\* C6: the error a failed synthesize raises is the error of the 3rd attempt on
\* the normalised text, also when the stripped retry was made and failed
\* after it (requests 4 to 6).
C6_RaisesThirdAttemptError ==
    \A c \in CallIds :
        calls[c].gen = "rejected" =>
            /\ calls[c].error.req = 3
            /\ calls[c].error.kind \in {"noaudio", "error"}
            /\ Len(Requests(calls[c])) \in {3, 6}
            /\ Requests(calls[c])[3].text = Normalize(calls[c].text)

C6_Witness ==
    \E c \in CallIds :
        /\ calls[c].gen = "rejected"
        /\ Len(Requests(calls[c])) = 6
        /\ calls[c].error.req = 3

Letters == {"A", "a", "É", "é"}
LowerLetters == {"a", "é"}

\* the call requests the expected text and, when it decodes, caches under it
UsesText(call, expected) ==
    /\ call.trace[1] = Ev("req", expected, 0)
    /\ (call.gen = "resolved" /\ Len(Failures(call)) < 3) =>
          /\ CacheKey(call.voice, expected) \in DOMAIN audioCache
          /\ audioCache[CacheKey(call.voice, expected)] = call.result

\* first character upper case, the others lower case
IsSentenceCaseOf(result, text) ==
    /\ Len(result) = Len(text)
    /\ \A i \in 1..Len(text) :
          result[i] = IF i = 1 THEN UpperChar(text[i]) ELSE LowerChar(text[i])

C8_SpeakNeverThrows ==
    \A c \in CallIds : calls[c].op = "speak" => calls[c].outcome # "threw"

\* C9: a speakText call that has ended has started exactly one audible output:
\* the asset when generateAudio resolved, the local voice otherwise.
C9_ExactlyOneOutput ==
    \A c \in CallIds :
        (calls[c].op = "speak" /\ calls[c].pc = "done") =>
            /\ Len(calls[c].output) = 1
            /\ calls[c].gen = "resolved" =>
                  calls[c].output[1].kind = "asset"
                  /\ calls[c].output[1].asset = calls[c].result
            /\ calls[c].gen = "rejected" =>
                  calls[c].output[1].kind = "local"
                  /\ calls[c].output[1].text = calls[c].text

\* C10 as stated: when a sweep is over, it has sent as many requests as there
\* were pending texts.
C10_RequestsEqualPending ==
    pl.pc = "done" => SentBy(calls, ItemIds(pl)) = Len(pl.queue)

\* the texts of textsToProcess that a generateAudio call would not find cached
Uncached(texts, voiceName) ==
    SelectSeq(texts, LAMBDA text : CacheKey(voiceName, Normalize(text)) \notin DOMAIN audioCache)

\* C10: a sweep starts one generateAudio call for each pending text (a unique
\* text that was not cached when the sweep began) and none for a cached one,
\* also when requests fail; each call sends at most 6 requests.
C10_CallsEqualPending ==
    /\ [][ (pl.pc = "idle" /\ pl'.pc # "idle") =>
              /\ pl'.queue = Uncached(pl'.texts, pl'.voice)
              /\ Len(pl'.queue) = pl'.total - pl'.progress[1].completed ]_vars
    /\ [](pl.pc = "done" =>
              /\ ItemCalls = 1..Len(pl.queue)
              /\ \A c \in ItemCalls : calls[c].text = pl.queue[c] /\ calls[c].pc = "done"
              /\ SentBy(calls, ItemCalls) <= 6 * Len(pl.queue))

C10_Witness ==
    /\ pl.pc = "done"
    /\ Len(pl.queue) = 1 /\ pl.total = 2
    /\ calls[1].gen = "rejected"
    /\ SentBy(calls, ItemCalls) > Len(pl.queue)

\* the item calls of the sweep that have settled
SettledItems == {c \in ItemCalls : calls[c].pc = "done"}

\* C11: a sweep calls onProgress once with (number of texts already cached,
\* total) before it has sent any request, then once for each pending item that
\* finishes; each later report raises completed by exactly 1, and completed
\* never exceeds total.
C11_ProgressReports ==
    /\ [][ (pl.pc = "idle" /\ pl'.pc # "idle") =>
              /\ pl'.progress[1].completed = pl'.total - Len(Uncached(pl'.texts, pl'.voice))
              /\ pl'.progress[1].total = pl'.total
              /\ ~ pl'.progress[1].network ]_vars
    /\ [](pl.pc # "idle" =>
              /\ Len(pl.progress) = 1 + Cardinality(SettledItems)
              /\ \A k \in 2..Len(pl.progress) :
                     /\ pl.progress[k].completed = pl.progress[k - 1].completed + 1
                     /\ pl.progress[k].total = pl.total
                     /\ pl.progress[k].network
              /\ \A k \in 1..Len(pl.progress) : pl.progress[k].completed <= pl.total)

\* a finished sweep over two texts, one of them cached: two reports
C11_Witness ==
    /\ pl.pc = "done"
    /\ pl.total = 2 /\ Len(pl.queue) = 1
    /\ Len(pl.progress) = 2
    /\ pl.progress[1].completed = 1 /\ pl.progress[2].completed = 2

\* C12: whichever item calls of a sweep fail, the sweep ends; when it has ended
\* every pending item has been processed and has reported, and the last
\* report is (total, total).
C12_SweepSurvivesFailures ==
    /\ [](pl.pc = "done" =>
              /\ SettledItems = 1..Len(pl.queue)
              /\ Len(pl.progress) = 1 + Len(pl.queue)
              /\ pl.progress[Len(pl.progress)].completed = pl.total
              /\ pl.progress[Len(pl.progress)].total = pl.total)
    /\ (pl.pc = "running" ~> pl.pc = "done")

\* a finished sweep of two pending items, one rejected and one resolved
C12_Witness ==
    /\ pl.pc = "done"
    /\ Len(pl.queue) = 2
    /\ calls[1].gen = "rejected" /\ calls[2].gen = "resolved"
    /\ pl.progress[Len(pl.progress)].completed = pl.total

\* the step handles an interruption
InterruptionHandled == live'.interruptions = live.interruptions + 1

\* the step starts a source: the last of handles'
ChunkScheduled == Len(live'.handles) = Len(live.handles) + 1

Scheduled == live'.handles[Len(live'.handles)]

\* C13: the step that handles an interruption stops every source that was in
\* sourcesRef, leaves sourcesRef empty and nextStartTime at 0; the chunk that
\* comes next is then started at the clock time of its arrival.
C13_InterruptionResets ==
    [][ /\ InterruptionHandled =>
              /\ \A h \in live.sources : live'.handles[h].state = "stopped"
              /\ live'.sources = {}
              /\ live'.nextStartTime = 0
        /\ (live.interruptions > 0 /\ live.nextStartTime = 0 /\ ChunkScheduled) =>
              Scheduled.when = live.clock ]_vars

\* a chunk was stopped by an interruption while the cursor was ahead of the
\* clock, and the chunk after it started before the old cursor
C13_Witness ==
    /\ Len(live.handles) = 2
    /\ live.handles[1].state = "stopped"
    /\ live.handles[2].epoch = 1 /\ live.handles[2].state = "scheduled"
    /\ live.handles[2].when < live.handles[1].when + live.handles[1].dur
    /\ live.sources = {2}

\* C14: a chunk is started at max(nextStartTime, clock), both read when its
\* message comes, and nextStartTime is then that time plus the duration of the
\* chunk (0 when the same message is an interruption); so of two chunks that
\* come one after the other at the same clock time t0, the cursor not being
\* ahead of t0, the first starts at t0 and the second at t0 plus the duration
\* of the first.
C14_StartAtCursorOrClock ==
    /\ [][ ChunkScheduled =>
              /\ Scheduled.when = MathMax(live.nextStartTime, live.clock)
              /\ live'.nextStartTime =
                    IF InterruptionHandled THEN 0 ELSE Scheduled.when + Scheduled.dur ]_vars
    /\ [](\A k \in 1..(Len(live.handles) - 1) :
             LET first == live.handles[k]
                 second == live.handles[k + 1]
             IN (/\ first.heard = second.heard
                 /\ first.when = first.heard
                 /\ second.epoch = first.epoch) =>
                    second.when = first.heard + first.dur)

\* two chunks of durations 1 and 2 came at clock time 1
C14_Witness ==
    /\ Len(live.handles) = 2
    /\ live.handles[1].heard = 1 /\ live.handles[2].heard = 1
    /\ live.handles[1].dur = 1 /\ live.handles[2].dur = 2
    /\ live.handles[1].when = 1 /\ live.handles[2].when = 2
    /\ live.nextStartTime = 4

\* the frames pushed after the component was unmounted
SentAfterClose(kind) ==
    {k \in 1..Len(live.out) : live.out[k].kind = kind /\ live.out[k].unmounted}

\* C15: once a session that had video enabled is closed, no frame timer is
\* set, no camera stream is live and no video frame has been pushed since the
\* close.
C15_VideoStopsOnClose ==
    (~Mounted(live) /\ live.isVideoEnabled) =>
        /\ live.timers = {}
        /\ live.cams = {}
        /\ SentAfterClose("video") = {}

\* C16: once the session is closed the microphone is not being captured: no
\* microphone stream is live and no node is connected, whenever the close came.
C16_MicStopsOnClose ==
    ~Mounted(live) =>
        /\ live.mic # "live"
        /\ live.nodes # "connected"

\* C17: a step taken after the close starts no source, asks for no
\* microphone and leaves nextStartTime and sourcesRef as they are.
C17_CallbacksAfterCloseIgnored ==
    [][ ~Mounted(live) =>
          /\ live'.handles = live.handles
          /\ live'.decoding = live.decoding
          /\ live'.nextStartTime = live.nextStartTime
          /\ live'.sources = live.sources
          /\ live'.mic = "requested" => live.mic = "requested" ]_vars

\* C18: a second run of the teardown rejects no promise and changes nothing:
\* the microphone is stopped, no timer is set, the nodes are disconnected and
\* both contexts are closed, as after the first run.
C18_CloseIdempotent ==
    [][ (0 < live.unmounts /\ live'.unmounts = live.unmounts + 1) =>
          /\ live' = [live EXCEPT !.unmounts = @ + 1]
          /\ live'.mic # "live" /\ live'.nodes # "connected"
          /\ live'.timers = {}
          /\ live'.inputCtx = "closed" /\ live'.outputCtx = "closed" ]_vars

\* C19: a connection that has closed, by an error or from the remote end,
\* stays closed and no frame is pushed to it any more.
C19_ClosedForGood ==
    [][ live.net = "closed" =>
          /\ live'.net = "closed"
          /\ live'.out = live.out ]_vars

\* C20: of two chunks with no interruption handled from the arrival of the
\* first to the start of the second, the one that came first is started first
\* and its interval [when, when + dur] ends no later than the other begins.
C20_ArrivalOrderNoOverlap ==
    \A a \in DOMAIN live.handles, b \in DOMAIN live.handles :
        (live.handles[a].recv < live.handles[b].recv
         /\ live.handles[b].sepoch = live.handles[a].epoch) =>
            /\ a < b
            /\ live.handles[a].when + live.handles[a].dur <= live.handles[b].when

\* the second chunk came while the first was being decoded, and the clock moved
\* on before the first was started
C20_Witness ==
    /\ Len(live.handles) = 2
    /\ live.handles[2].sepoch = live.handles[1].epoch
    /\ live.handles[2].heard < live.handles[1].at
    /\ live.handles[1].when + live.handles[1].dur = live.handles[2].when

\* C21: no interruption is handled between the arrival of a chunk and the step
\* that starts its source and adds it to sourcesRef: a chunk that came before
\* an interruption is started before it or not at all.
C21_AtomicWithInterruption ==
    /\ \A h \in DOMAIN live.handles : live.handles[h].sepoch = live.handles[h].epoch
    /\ \A k \in DOMAIN live.decoding : live.decoding[k].epoch = live.interruptions

\* the first message brought a chunk, the clock moved on while it was decoded,
\* and the second message interrupted it
C21_Witness ==
    /\ live.msgs = 2 /\ live.interruptions = 1
    /\ Len(live.handles) = 1
    /\ live.handles[1].recv = 1
    /\ live.handles[1].heard < live.handles[1].at
    /\ live.handles[1].state = "stopped"
    /\ live.sources = {}

\* the key generateAudio looks up for a call
KeyOf(call) == CacheKey(call.voice, Normalize(call.text))

\* call c is in generateAudio, waiting for the network or for a backoff timer
InFlight(c) == calls[c].pc \in {"awaiting", "delaying"}

\* C22: a generateAudio call entered while another call for the same key is in
\* flight and the key is not cached sends a request of its own; the cache
\* changes only when a call has decoded a payload, and then holds the asset
\* of that call under the key, whatever it held before: of two calls for one
\* key the one that decodes last leaves its asset.
C22_LastWriterWins ==
    [][ /\ \A c \in Callers, o \in Callers :
             ( /\ c # o /\ InFlight(o)
               /\ calls[c].pc = "idle" /\ calls'[c].pc # "idle"
               /\ KeyOf(calls'[c]) = KeyOf(calls[o])
               /\ KeyOf(calls[o]) \notin DOMAIN audioCache )
             => /\ Len(Requests(calls'[c])) = 1
                /\ calls'[c].pc = "awaiting"
                /\ calls'[o] = calls[o]
        /\ \A c \in Callers :
             (calls[c].pc = "awaiting" /\ calls'[c].result = calls[c].id)
             => LET cacheKey == CacheKey(calls[c].voice, Top(calls[c]).text)
                IN /\ DOMAIN audioCache' = DOMAIN audioCache \cup {cacheKey}
                   /\ audioCache'[cacheKey] = calls[c].id
                   /\ \A k \in DOMAIN audioCache \ {cacheKey} :
                         audioCache'[k] = audioCache[k]
        /\ audioCache' # audioCache
             => \E c \in Callers :
                  calls[c].pc = "awaiting" /\ calls'[c].result = calls[c].id
      ]_vars

\* two calls for one key, the second entered while the first was waiting for
\* its only request: both got an asset of their own, and the cache holds the
\* asset of the call that was entered first
C22_Witness ==
    /\ \A c \in Callers : /\ calls[c].outcome = "returned"
                           /\ Len(calls[c].trace) = 1
                           /\ calls[c].result = calls[c].id
    /\ KeyOf(calls[0]) = KeyOf(calls[1])
    /\ calls[0].text # calls[1].text
    /\ calls[0].id[1] < calls[1].id[1]
    /\ audioCache[KeyOf(calls[0])] = calls[0].id

\* the batch an item of the queue belongs to
BatchOf(k) == (k - 1) \div BATCH_SIZE

ItemStarted(k) == calls[k].op = "item" /\ calls[k].pc # "idle"

C24_NoAudioStrippedRetry ==
    \A c \in CallIds :
        (calls[c].gen = "rejected" /\ calls[c].error.kind = "noaudio")
        => Len(Requests(calls[c])) > MAX_RETRIES

\* C24, amended: an answer without audio fails its attempt like any other
\* failure.  On the first two attempts of a frame the same text is requested
\* again after the backoff; on the third attempt of the call's own text one
\* stripped retry is entered if the text has sentence punctuation; otherwise,
\* and on the third attempt of the stripped retry, the call rejects with the
\* error of the third attempt on its own text.
C24_NoAudioIsAnAttemptFailure ==
    [][ \A c \in CallIds, fallback \in DeviceOutcomes :
          RespondFailure(c, "noaudio", fallback)
          => LET call == calls[c]
                 top == Top(call)
                 n == Len(call.stack)
             IN IF top.attempt < MAX_RETRIES - 1
                THEN /\ calls'[c].pc = "delaying"
                     /\ Len(calls'[c].stack) = n
                     /\ Top(calls'[c]).text = top.text
                     /\ Len(Requests(calls'[c])) = Len(Requests(call))
                ELSE IF n = 1 /\ MatchesPunct(top.text)
                THEN \/ /\ calls'[c].pc = "awaiting"
                        /\ Len(calls'[c].stack) = 2
                        /\ Top(calls'[c]).text = StripPunct(top.text)
                        /\ Len(Requests(calls'[c])) = MAX_RETRIES + 1
                     \/ /\ calls'[c].gen = "resolved"
                        /\ CacheKey(call.voice, StripPunct(top.text)) \in DOMAIN audioCache
                ELSE /\ calls'[c].gen = "rejected"
                     /\ calls'[c].error.req = MAX_RETRIES
                     /\ n = 1 => calls'[c].error.kind = "noaudio"
      ]_vars

\* every answer of a call on a text with a full stop was without audio: 3
\* attempts, 3 requests of the stripped retry, and the call has rejected
C24_Witness ==
    \E c \in CallIds :
        /\ calls[c].gen = "rejected"
        /\ calls[c].error = [req |-> MAX_RETRIES, kind |-> "noaudio"]
        /\ Len(Requests(calls[c])) = 2 * MAX_RETRIES
        /\ Len(Failures(calls[c])) = 2 * MAX_RETRIES
        /\ MatchesPunct(Normalize(calls[c].text))

\* the sources that were started and have neither ended nor been stopped
Playing(l) == {h \in DOMAIN l.handles : l.handles[h].state = "scheduled"}

\* C25: sourcesRef holds exactly the sources that were started and whose
\* 'ended' listener has not run and that no interruption has stopped; a source
\* is in it from the step that starts it; the 'ended' listener of a source
\* removes that source only; an interruption empties it.
C25_ActiveSources ==
    /\ [](live.sources = Playing(live))
    /\ [][ /\ (ChunkScheduled /\ ~InterruptionHandled) =>
                live'.sources = live.sources \cup {Len(live'.handles)}
           /\ \A h \in DOMAIN live.handles :
                (live.handles[h].state = "scheduled" /\ live'.handles[h].state = "ended")
                => live'.sources = live.sources \ {h}
           /\ InterruptionHandled => live'.sources = {} ]_vars

\* of three sources the first has ended, the second was stopped by an
\* interruption and the third is in sourcesRef
C25_Witness ==
    /\ Len(live.handles) = 3
    /\ live.handles[1].state = "ended"
    /\ live.handles[2].state = "stopped"
    /\ live.handles[3].state = "scheduled"
    /\ live.sources = {3}

\* C26: only the interruption block lowers nextStartTime; a message with a
\* chunk and no interruption raises it by the duration of the chunk at least.
C26_CursorMonotonic ==
    [][ /\ live'.nextStartTime < live.nextStartTime => InterruptionHandled
        /\ (ChunkScheduled /\ ~InterruptionHandled) =>
              live'.nextStartTime >= live.nextStartTime + Scheduled.dur ]_vars

\* the cursor rose over two chunks, the second queued behind the first, and an
\* interruption then set it to 0
C26_Witness ==
    /\ Len(live.handles) = 2
    /\ live.handles[1].epoch = 0 /\ live.handles[2].epoch = 0
    /\ live.handles[2].when = live.handles[1].when + live.handles[1].dur
    /\ live.handles[2].when > live.handles[2].heard
    /\ live.interruptions = 1 /\ live.msgs = 3
    /\ live.nextStartTime = 0

\* generateAudio(text, voiceName) on the cache as it is would return at its
\* cache lookup, without a request
WouldHit(text, voiceName) ==
    LET call == GenEnter(NewCall("synthesize", <<0, 0>>, text, voiceName), text)
    IN call.gen = "resolved" /\ call.trace = <<>>

\* the text of a call, its upper-case form, its normalised form and its form
\* without punctuation
Variants(text) == {text, toUpperCase(text), Normalize(text), StripPunct(text)}

\* C27: on every cache the filter of preloadAudioAssets drops a text exactly
\* when generateAudio would return it from the cache without a request: both
\* normalise alike, so both look up the same key, and a normalised text is
\* its own normalisation.
C27_FilterAgreesWithLookup ==
    \A c \in CallIds : \A text \in Variants(calls[c].text), voiceName \in Voices :
        /\ PreloadNormalize(text) = Normalize(text)
        /\ Normalize(Normalize(text)) = Normalize(text)
        /\ ~IsPending(text, voiceName) <=> WouldHit(text, voiceName)

\* a call on a text in capitals has cached its asset; the filter drops the
\* text in capitals and its sentence case, under the voice of the call only
C27_Witness ==
    /\ calls[Ui].gen = "resolved"
    /\ Len(calls[Ui].trace) = 1
    /\ Normalize(calls[Ui].text) # calls[Ui].text
    /\ ~IsPending(calls[Ui].text, calls[Ui].voice)
    /\ ~IsPending(Normalize(calls[Ui].text), calls[Ui].voice)
    /\ \E voiceName \in Voices : IsPending(calls[Ui].text, voiceName)

\* the assets of the cache that call c decoded
WrittenBy(c) == {k \in DOMAIN audioCache : audioCache[k] = calls[c].id}

\* C28: the cache holds no asset of a call that has not resolved, so a call
\* that raises has written nothing; the cache changes only in a step in
\* which a call decodes a payload and resolves, and no key ever leaves it.
C28_RaisingCallLeavesCache ==
    /\ [](\A c \in Callers : calls[c].gen # "resolved" => WrittenBy(c) = {})
    /\ [][ /\ DOMAIN audioCache \subseteq DOMAIN audioCache'
           /\ audioCache' # audioCache
                => \E c \in Callers :
                     /\ calls[c].pc = "awaiting"
                     /\ calls'[c].gen = "resolved" /\ calls'[c].result = calls[c].id
                     /\ \A k \in DOMAIN audioCache :
                           audioCache'[k] # audioCache[k] => audioCache'[k] = calls[c].id
         ]_vars

\* of two calls for one key, one has raised after its stripped retry and the
\* other has resolved: the cache holds the asset of the other and nothing else
C28_Witness ==
    \E c \in Callers, o \in Callers :
        /\ calls[c].gen = "rejected" /\ Len(Requests(calls[c])) = 2 * MAX_RETRIES
        /\ calls[o].gen = "resolved" /\ calls[o].result = calls[o].id
        /\ KeyOf(calls[c]) = KeyOf(calls[o])
        /\ audioCache = (KeyOf(calls[o]) :> calls[o].id)

\* C29: at most one frame timer is set and at most one camera stream is live
\* at any time, and a mounted session whose video is off has no timer.
C29_OneTimerOneStream ==
    /\ Cardinality(live.timers) <= 1
    /\ Cardinality(live.cams) <= 1
    /\ (Mounted(live) /\ ~live.isVideoEnabled) => live.timers = {}

\* C30: while isSpeaking holds no other speakText call of the strip is
\* started, and isSpeaking always becomes false again.
C30_OneSpeakAndSpeakingEnds ==
    /\ [][isSpeaking => calls'[Ui].id = calls[Ui].id]_vars
    /\ isSpeaking ~> ~isSpeaking

====
